---------------------------- MODULE Spec2Model ----------------------------
(***************************************************************************)
(* The Streamlit visualisation app of src/app.py and its revision          *)
(* src/iteration1/app.py.  Every widget interaction re-runs the script     *)
(* from the top; one run is: read the uploaded file, preview it, ask for   *)
(* suggestions, pick a chart kind and colour scale, run that kind's        *)
(* generator, display the figure and save it.                              *)
(*                                                                         *)
(* pandas and plotly are not part of the repository.  Their calls are      *)
(* modelled by what the libraries do with the arguments the code passes    *)
(* (PxFigure, pivot_table, px_imshow below); where the outcome depends on  *)
(* something the model does not track, the call takes the outcome as the   *)
(* parameter lib, which the calling action chooses freely.                 *)
(***************************************************************************)
EXTENDS Integers, Sequences, FiniteSets, TLC

VARIABLES
    revision,       \* which script runs: "app" (src/app.py) or "iteration1"
    pc,             \* position of the script run
    runs,           \* number of script runs started in this session
    uploaded_file,  \* value of st.file_uploader
    sheet_data,     \* the parsed DataFrame of this run
    viz_type,       \* value of the "Visualization Type" selectbox
    color_scale,    \* value of the "Select Color Scheme" selectbox
    sel,            \* values of the column selectboxes of the chosen branch
    fig,            \* the figure returned by the generator of this run
    page,           \* the elements this run has sent to the page, in order
    files,          \* files on disk, each with the run that wrote it
    dirs,           \* directories that exist, each with the run that made it
    calls,          \* the generators this run has called, in order
    baseline        \* the first generator call of SpecPivot: its frame and figure

vars == <<revision, pc, runs, uploaded_file, sheet_data, viz_type, color_scale,
          sel, fig, page, files, dirs, calls, baseline>>

\* ------------------------------------------------------------------ bounds

\* Longest DataFrame (in rows) of the exhaustive pivot-table check.
MaxRows == 2
\* Script runs per session.
MaxRuns == 1

\* ------------------------------------------------------------------ values

None == "None"

Range(s) == {s[i] : i \in 1..Len(s)}

color_scales ==
    <<"Viridis", "Cividis", "Inferno", "Plasma", "Magma", "Jet", "Rainbow",
      "Blues", "Greens", "Reds", "Purples">>

VizTypes == <<"Gantt Chart", "Bar Chart", "Scatter Plot", "Line Chart", "Heatmap">>

Revisions == {"app", "iteration1"}

\* Column labels of the uploaded tables, a label no table has, and a colour
\* scale name plotly does not know.
Columns == <<"region", "month", "sales">>
AbsentColumn == "price"
UnknownScale == "Foobar"

\* Cell values: two key values and the two amounts of the heatmap scenario.
Keys == {1, 2}
Amounts == {10, 15}

Row(r, m, s) == [region |-> r, month |-> m, sales |-> s]
RowSet == {Row(r, m, s) : r \in Keys, m \in Keys, s \in Amounts}

\* A DataFrame: its column labels, its rows, and the columns whose cells
\* pandas.to_datetime can convert.
Frame(cols, rows, dates) == [columns |-> cols, rows |-> rows, dates |-> dates]

RECURSIVE SeqsUpTo(_, _)
SeqsUpTo(S, n) ==
    IF n = 0 THEN {<<>>}
    ELSE LET shorter == SeqsUpTo(S, n - 1)
         IN shorter \cup {Append(s, e) : s \in {t \in shorter : Len(t) = n - 1}, e \in S}

BoundedFrames == {Frame(Columns, rows, {}) : rows \in SeqsUpTo(RowSet, MaxRows)}

\* The tables of the session model: a sheet with no cells, a table with a
\* header and no rows, and a table with two rows for the same
\* (region, month) pair.
NoColumns == Frame(<<>>, <<>>, {})
HeaderOnly == Frame(Columns, <<>>, {})
Sales == Frame(Columns, <<Row(1, 1, 10), Row(1, 1, 15)>>, {"month"})
NoFrame == Frame(<<>>, <<>>, {None})

\* An uploaded file: its extension, whether pandas can read it, its sheets.
Upload(ext, readable, sheets) == [ext |-> ext, readable |-> readable, sheets |-> sheets]
NoUpload == Upload(None, FALSE, <<>>)
Uploads ==
    { Upload("csv", FALSE, <<>>),
      Upload("csv", TRUE, <<HeaderOnly>>),
      Upload("xlsx", FALSE, <<>>),
      Upload("xlsx", TRUE, <<NoColumns, Sales>>) }

\* Exceptions, pivot tables, figures and page elements.
Exc(type, about) == [type |-> type, about |-> about]
NoExc == Exc(None, None)

Table(index, cols, cell) == [index |-> index, columns |-> cols, cell |-> cell]
NoTable == Table(<<>>, <<>>, <<>>)

Figure(kind, x, x_end, y, color, scale, z) ==
    [kind |-> kind, x |-> x, x_end |-> x_end, y |-> y, color |-> color,
     scale |-> scale, z |-> z]
NoFig == Figure(None, None, None, None, None, None, NoTable)

Selection(x, x_end, y, c) == [x |-> x, x_end |-> x_end, y |-> y, c |-> c]
NoSel == Selection(None, None, None, None)

Element(el, text, file, exc, f) ==
    [el |-> el, text |-> text, file |-> file, exc |-> exc, fig |-> f]
StError(text, e) == Element("error", text, <<>>, e, NoFig)
StSuccess(file) == Element("success", "Visualization saved as", file, NoExc, NoFig)
StWrite(text) == Element("write", text, <<>>, NoExc, NoFig)
StPlotlyChart(f) == Element("plotly_chart", None, <<>>, NoExc, f)


\* ------------------------------------------------- pandas and plotly calls

Ok(f) == [fig |-> f, exc |-> NoExc]
Raise(e) == [fig |-> NoFig, exc |-> e]

\* The colour scale names plotly resolves: every entry of color_scales is one.
NamedColorscale(scale) == scale \in Range(color_scales)

\* The first of the column arguments that is no column of the frame.
RECURSIVE FirstMissing(_, _)
FirstMissing(df, args) ==
    IF args = <<>> THEN None
    ELSE IF Head(args) # None /\ Head(args) \notin Range(df.columns) THEN Head(args)
    ELSE FirstMissing(df, Tail(args))

\* pandas.to_datetime on a column: an empty column converts.
Convertible(df, col) == df.rows = <<>> \/ col \in df.dates

\* A plotly.express chart function on (df, column arguments): a column
\* argument that is no column raises ValueError naming it; px.timeline then
\* converts x_start and x_end and raises TypeError when it cannot; the colour
\* scale is resolved only when a continuous colour axis is built, that is when
\* a colour column is given and there are rows.  On a frame without columns
\* the outcome is lib.
PxFigure(kind, df, x, x_end, y, color, scale, lib) ==
    LET missing == FirstMissing(df, <<x, y, x_end, color>>)
    IN  IF missing # None THEN Raise(Exc("ValueError", missing))
        ELSE IF df.columns = <<>>
        THEN IF lib THEN Ok(Figure(kind, x, x_end, y, color, scale, NoTable))
             ELSE Raise(Exc("LibraryError", None))
        ELSE IF kind = "Gantt Chart" /\ ~(Convertible(df, x) /\ Convertible(df, x_end))
        THEN Raise(Exc("TypeError", "x_start, x_end"))
        ELSE IF color # None /\ df.rows # <<>> /\ scale # None /\ ~NamedColorscale(scale)
        THEN Raise(Exc("ValueError", scale))
        ELSE Ok(Figure(kind, x, x_end, y, color, scale, NoTable))

px_timeline(df, x_start, x_end, y, color, scale, lib) ==
    PxFigure("Gantt Chart", df, x_start, x_end, y, color, scale, lib)

px_bar(df, x, y, color, scale, lib) ==
    PxFigure("Bar Chart", df, x, None, y, color, scale, lib)

px_scatter(df, x, y, color, scale, lib) ==
    PxFigure("Scatter Plot", df, x, None, y, color, scale, lib)

\* px.line has no parameter color_continuous_scale: a call that passes one
\* (scale # None) raises TypeError before anything else happens.
px_line(df, x, y, color, scale, lib) ==
    IF scale # None THEN Raise(Exc("TypeError", "color_continuous_scale"))
    ELSE PxFigure("Line Chart", df, x, None, y, color, None, lib)

\* --- DataFrame.pivot_table(index, columns, values, aggfunc="sum").fillna(0)

RECURSIVE SortedSeq(_)
SortedSeq(S) ==
    IF S = {} THEN <<>>
    ELSE LET m == CHOOSE a \in S : \A b \in S : a <= b
         IN <<m>> \o SortedSeq(S \ {m})

RECURSIVE FirstSeen(_, _)
FirstSeen(rows, col) ==
    IF rows = <<>> THEN <<>>
    ELSE LET rest == FirstSeen(SubSeq(rows, 1, Len(rows) - 1), col)
             last == rows[Len(rows)][col]
         IN IF last \in Range(rest) THEN rest ELSE Append(rest, last)

\* groupby([index, columns])[values].sum(): one entry per pair that occurs.
RECURSIVE GroupSum(_, _, _, _, _)
GroupSum(rows, index, columns, values, pair) ==
    IF rows = <<>> THEN 0
    ELSE LET r == Head(rows)
         IN (IF <<r[index], r[columns]>> = pair THEN r[values] ELSE 0)
            + GroupSum(Tail(rows), index, columns, values, pair)

RECURSIVE GroupMax(_, _, _, _, _)
GroupMax(rows, index, columns, values, pair) ==
    IF rows = <<>> THEN 0
    ELSE LET r == Head(rows)
             rest == GroupMax(Tail(rows), index, columns, values, pair)
         IN IF <<r[index], r[columns]>> = pair /\ r[values] > rest THEN r[values] ELSE rest

Pairs(rows, index, columns) ==
    {<<rows[i][index], rows[i][columns]>> : i \in 1..Len(rows)}

\* aggfunc="max" in place of "sum".
pivot_table_max(df, index, columns, values) ==
    LET ys == {df.rows[i][index] : i \in 1..Len(df.rows)}
        xs == {df.rows[i][columns] : i \in 1..Len(df.rows)}
        grouped == Pairs(df.rows, index, columns)
    IN Table(SortedSeq(ys), SortedSeq(xs),
             [p \in ys \X xs |->
                 IF p \in grouped THEN GroupMax(df.rows, index, columns, values, p) ELSE 0])

\* sort=False: the keys in the order the rows show them.
pivot_table_unsorted(df, index, columns, values) ==
    LET ys == {df.rows[i][index] : i \in 1..Len(df.rows)}
        xs == {df.rows[i][columns] : i \in 1..Len(df.rows)}
        grouped == Pairs(df.rows, index, columns)
    IN Table(FirstSeen(df.rows, index), FirstSeen(df.rows, columns),
             [p \in ys \X xs |->
                 IF p \in grouped THEN GroupSum(df.rows, index, columns, values, p) ELSE 0])

\* The grouped sums, unstacked on the sorted keys; fillna(0) fills the pairs
\* that no row has.
pivot_table(df, index, columns, values) ==
    LET ys == {df.rows[i][index] : i \in 1..Len(df.rows)}
        xs == {df.rows[i][columns] : i \in 1..Len(df.rows)}
        grouped == Pairs(df.rows, index, columns)
    IN Table(SortedSeq(ys), SortedSeq(xs),
             [p \in ys \X xs |->
                 IF p \in grouped THEN GroupSum(df.rows, index, columns, values, p) ELSE 0])

\* pivot_table raises KeyError for a label that is no column (values first,
\* then the keys) and ValueError when two of the three roles name the same
\* column.  On a frame without rows or without columns the outcome of
\* pivot_table and px.imshow is lib.  px.imshow always resolves the scale.
px_imshow_pivot(df, x_col, y_col, value_col, scale, lib) ==
    LET missing == FirstMissing(df, <<value_col, y_col, x_col>>)
    IN  IF missing # None THEN Raise(Exc("KeyError", missing))
        ELSE IF (df.columns = <<>> \/ df.rows = <<>>) /\ ~lib
        THEN Raise(Exc("LibraryError", None))
        ELSE IF df.columns # <<>> /\ df.rows # <<>>
                /\ (x_col = y_col \/ value_col = x_col \/ value_col = y_col)
        THEN Raise(Exc("ValueError", "Grouper not 1-dimensional"))
        ELSE IF ~NamedColorscale(scale) THEN Raise(Exc("ValueError", scale))
        ELSE Ok(Figure("Heatmap", x_col, None, y_col, value_col, scale,
                       IF df.rows = <<>> THEN NoTable
                       ELSE pivot_table(df, y_col, x_col, value_col)))

\* ------------------------------------------------------------ the functions

\* What a function hands back: its return value and the elements it sent to
\* the page.
Returned(r, text) ==
    IF r.exc = NoExc THEN [fig |-> r.fig, out |-> <<>>]
    ELSE [fig |-> NoFig, out |-> <<StError(text, r.exc)>>]

\* suggest_visualizations: answered == the completion call returned.  The
\* value is the text to show; raised is the exception that leaves the function.
suggest_visualizations_raising(df, answered) ==
    IF answered THEN [value |-> "suggestions", exc |-> NoExc, raised |-> NoExc]
    ELSE [value |-> None, exc |-> NoExc, raised |-> Exc("OpenAIError", None)]

suggest_visualizations(df, answered) ==
    IF answered THEN [value |-> "suggestions", exc |-> NoExc, raised |-> NoExc]
    ELSE [value |-> "Error generating suggestions", exc |-> Exc("OpenAIError", None),
          raised |-> NoExc]

generate_gantt_chart(df, start_col, end_col, task_col, scale, lib) ==
    Returned(px_timeline(df, start_col, end_col, task_col, task_col, scale, lib),
             "Error generating Gantt Chart")

generate_bar_chart(df, x_col, y_col, scale, lib) ==
    Returned(px_bar(df, x_col, y_col, y_col, scale, lib), "Error generating Bar Chart")

\* color=y_col, as generate_bar_chart has it.
generate_scatter_plot_by_y(df, x_col, y_col, color_col, scale, lib) ==
    Returned(px_scatter(df, x_col, y_col, y_col, scale, lib),
             "Error generating Scatter Plot")

generate_scatter_plot(df, x_col, y_col, color_col, scale, lib) ==
    Returned(px_scatter(df, x_col, y_col, color_col, scale, lib),
             "Error generating Scatter Plot")

\* src/app.py
generate_line_chart(df, x_col, y_col, color_col, scale, lib) ==
    Returned(px_line(df, x_col, y_col, color_col, scale, lib), "Error generating Line Chart")

\* src/iteration1/app.py
generate_line_chart_1(df, x_col, y_col, color_col, scale, lib) ==
    Returned(IF color_col # None
             THEN px_line(df, x_col, y_col, color_col, scale, lib)
             ELSE px_line(df, x_col, y_col, None, None, lib),
             "Error generating Line Chart")

\* color_continuous_scale is not passed on: px.imshow takes its default.
generate_heatmap_default_scale(df, x_col, y_col, value_col, scale, lib) ==
    Returned(px_imshow_pivot(df, x_col, y_col, value_col, color_scales[1], lib),
             "Error generating Heatmap")

generate_heatmap(df, x_col, y_col, value_col, scale, lib) ==
    Returned(px_imshow_pivot(df, x_col, y_col, value_col, scale, lib),
             "Error generating Heatmap")


\* --- save_to_html

\* A file name as its pieces, so that str.replace acts on it as it does.
HtmlName(stem) == <<stem, ".html">>

RECURSIVE Replace(_, _, _)
Replace(name, old, new) ==
    IF name = <<>> THEN <<>>
    ELSE <<IF Head(name) = old THEN new ELSE Head(name)>> \o Replace(Tail(name), old, new)

\* A file holds the figure of kind `kind` that run `stamp` wrote; a directory
\* was made by run `made`.  Run 0 is whatever happened before the session.
File(folder, name, kind, stamp) ==
    [folder |-> folder, name |-> name, kind |-> kind, stamp |-> stamp]
Dir(name, made) == [name |-> name, made |-> made]
Exists(ds, name) == \E d \in ds : d.name = name

\* Writing a file replaces what the path held.
WriteFile(fs, folder, name, kind, stamp) ==
    {f \in fs : ~(f.folder = folder /\ f.name = name)} \cup {File(folder, name, kind, stamp)}

IoOutcomes == [mk : BOOLEAN, html : BOOLEAN, png : BOOLEAN]

SaveError == StError("Error saving visualization", Exc("OSError", None))

\* The file is written although write_html raised.
save_to_html_torn(f, filename, fs, ds, stamp, io) ==
    IF io.html
    THEN [files |-> WriteFile(fs, ".", filename, f.kind, stamp), dirs |-> ds,
          out |-> <<StSuccess(filename)>>]
    ELSE [files |-> WriteFile(fs, ".", filename, f.kind, stamp), dirs |-> ds,
          out |-> <<SaveError>>]

\* src/app.py: the file goes to the working directory.  io.html: write_html
\* returned.
save_to_html(f, filename, fs, ds, stamp, io) ==
    IF io.html
    THEN [files |-> WriteFile(fs, ".", filename, f.kind, stamp), dirs |-> ds,
          out |-> <<StSuccess(filename)>>]
    ELSE [files |-> fs, dirs |-> ds, out |-> <<SaveError>>]

\* The image is written beside the script, not into folder_path.
save_to_html_1_cwd(f, filename, save_png, folder_path, fs, ds, stamp, io) ==
    LET made == ~Exists(ds, folder_path) /\ io.mk
        ds1 == IF made THEN ds \cup {Dir(folder_path, stamp)} ELSE ds
        fs1 == WriteFile(fs, folder_path, filename, f.kind, stamp)
        png_filename == Replace(filename, ".html", ".png")
    IN  IF ~Exists(ds, folder_path) /\ ~io.mk THEN [files |-> fs, dirs |-> ds, out |-> <<SaveError>>]
        ELSE IF ~io.html THEN [files |-> fs, dirs |-> ds1, out |-> <<SaveError>>]
        ELSE IF ~save_png THEN [files |-> fs1, dirs |-> ds1, out |-> <<StSuccess(filename)>>]
        ELSE IF ~io.png
        THEN [files |-> fs1, dirs |-> ds1, out |-> <<StSuccess(filename), SaveError>>]
        ELSE [files |-> WriteFile(fs1, ".", png_filename, f.kind, stamp), dirs |-> ds1,
              out |-> <<StSuccess(filename), StSuccess(png_filename)>>]

\* src/iteration1/app.py: io.mk, io.html, io.png: os.makedirs, write_html,
\* write_image returned.
save_to_html_1(f, filename, save_png, folder_path, fs, ds, stamp, io) ==
    LET made == ~Exists(ds, folder_path) /\ io.mk
        ds1 == IF made THEN ds \cup {Dir(folder_path, stamp)} ELSE ds
        fs1 == WriteFile(fs, folder_path, filename, f.kind, stamp)
        png_filename == Replace(filename, ".html", ".png")
    IN  IF ~Exists(ds, folder_path) /\ ~io.mk THEN [files |-> fs, dirs |-> ds, out |-> <<SaveError>>]
        ELSE IF ~io.html THEN [files |-> fs, dirs |-> ds1, out |-> <<SaveError>>]
        ELSE IF ~save_png THEN [files |-> fs1, dirs |-> ds1, out |-> <<StSuccess(filename)>>]
        ELSE IF ~io.png
        THEN [files |-> fs1, dirs |-> ds1, out |-> <<StSuccess(filename), SaveError>>]
        ELSE [files |-> WriteFile(fs1, folder_path, png_filename, f.kind, stamp), dirs |-> ds1,
              out |-> <<StSuccess(filename), StSuccess(png_filename)>>]

\* ------------------------------------------------------- the script, by step

NoBaseline == [df |-> NoFrame, fig |-> NoFig]

\* The disk when the session starts: nothing saved yet, or the Gantt chart an
\* earlier session saved.
InitialDisks(rev) ==
    IF rev = "app"
    THEN { <<{Dir(".", 0)}, {}>>,
           <<{Dir(".", 0)}, {File(".", HtmlName("gantt_chart"), "Gantt Chart", 0)}>> }
    ELSE { <<{Dir(".", 0)}, {}>>,
           <<{Dir(".", 0), Dir("visualizations", 0)},
             {File("visualizations", HtmlName("gantt_chart"), "Gantt Chart", 0),
              File("visualizations", <<"gantt_chart", ".png">>, "Gantt Chart", 0)}>> }

Init ==
    /\ revision \in Revisions
    /\ pc = "idle"
    /\ runs = 0
    /\ uploaded_file = NoUpload
    /\ sheet_data = NoFrame
    /\ viz_type = None
    /\ color_scale = None
    /\ sel = NoSel
    /\ fig = NoFig
    /\ page = <<>>
    /\ \E disk \in InitialDisks(revision) :
        /\ dirs = disk[1]
        /\ files = disk[2]
    /\ calls = <<>>
    /\ baseline = NoBaseline

\* A widget interaction: the script starts again from the top with nothing on
\* the page and no variable bound.
Rerun ==
    /\ pc = "idle"
    /\ runs < MaxRuns
    /\ runs' = runs + 1
    /\ \E f \in Uploads \cup {NoUpload} : uploaded_file' = f
    /\ sheet_data' = NoFrame
    /\ viz_type' = None
    /\ color_scale' = None
    /\ sel' = NoSel
    /\ fig' = NoFig
    /\ page' = <<>>
    /\ calls' = <<>>
    /\ pc' = "load"
    /\ UNCHANGED <<revision, files, dirs, baseline>>

\* The handler of the script's outer try: the exception is shown and the run
\* is over.
ProcessingError(e) ==
    /\ page' = Append(page, StError("Error processing file", e))
    /\ pc' = "idle"

Load ==
    /\ pc = "load"
    /\ IF uploaded_file = NoUpload
       THEN /\ pc' = "idle"
            /\ UNCHANGED <<sheet_data, page>>
       ELSE IF ~uploaded_file.readable
       THEN /\ ProcessingError(Exc("ParserError", None))
            /\ UNCHANGED sheet_data
       ELSE \E sheet \in 1..Len(uploaded_file.sheets) :
            /\ sheet_data' = uploaded_file.sheets[sheet]
            /\ page' = page \o (IF uploaded_file.ext = "xlsx"
                                THEN <<StWrite("Sheets available:")>> ELSE <<>>)
                            \o <<StWrite("Preview of the data:")>>
            /\ pc' = "suggest"
    /\ UNCHANGED <<revision, runs, uploaded_file, viz_type, color_scale, sel, fig,
                   files, dirs, calls, baseline>>

Suggest ==
    /\ pc = "suggest"
    /\ \E answered \in BOOLEAN :
        LET r == suggest_visualizations(sheet_data, answered)
        IN  IF r.raised # NoExc
            THEN ProcessingError(r.raised)
            ELSE /\ page' = Append(page, Element("write", r.value, <<>>, r.exc, NoFig))
                 /\ pc' = "choose"
    /\ UNCHANGED <<revision, runs, uploaded_file, sheet_data, viz_type, color_scale, sel,
                   fig, files, dirs, calls, baseline>>

ChooseViz ==
    /\ pc = "choose"
    /\ viz_type' \in Range(VizTypes)
    /\ color_scale' \in Range(color_scales)
    /\ pc' = "branch"
    /\ UNCHANGED <<revision, runs, uploaded_file, sheet_data, sel, fig, page, files, dirs,
                   calls, baseline>>

\* st.selectbox over the frame's columns: None when there is nothing to choose.
Options(df) == IF df.columns = <<>> THEN {None} ELSE Range(df.columns)
OptionalOptions(df) == {None} \cup Range(df.columns)

Truthy(col) == col # None

NotCalled == [fig |-> NoFig, out |-> <<>>]

\* The branch without its `if fig:` test.
Branch_unchecked(notice, selection, generator, called, r) ==
    /\ sel' = selection
    /\ calls' = IF called THEN Append(calls, generator) ELSE calls
    /\ fig' = r.fig
    /\ page' = page \o <<StWrite(notice)>> \o r.out
    /\ pc' = "display"
    /\ UNCHANGED <<revision, runs, uploaded_file, sheet_data, viz_type, color_scale,
                   files, dirs, baseline>>

\* The rest of a branch once its selectboxes have their values: the
\* generator's result r (NotCalled when the branch's guard kept it from
\* running), and the test of the figure.
Branch(notice, selection, generator, called, r) ==
    /\ sel' = selection
    /\ calls' = IF called THEN Append(calls, generator) ELSE calls
    /\ fig' = r.fig
    /\ page' = page \o <<StWrite(notice)>> \o r.out
    /\ pc' = IF r.fig # NoFig THEN "display" ELSE "idle"
    /\ UNCHANGED <<revision, runs, uploaded_file, sheet_data, viz_type, color_scale,
                   files, dirs, baseline>>


GanttBranch ==
    /\ pc = "branch"
    /\ viz_type = "Gantt Chart"
    /\ \E start \in Options(sheet_data), end \in Options(sheet_data),
          task \in Options(sheet_data), lib \in BOOLEAN :
        LET called == Truthy(start) /\ Truthy(end) /\ Truthy(task)
        IN  Branch("Generating Gantt Chart...", Selection(start, end, task, None),
                   "generate_gantt_chart", called,
                   IF called
                   THEN generate_gantt_chart(sheet_data, start, end, task, color_scale, lib)
                   ELSE NotCalled)

BarBranch ==
    /\ pc = "branch"
    /\ viz_type = "Bar Chart"
    /\ \E x \in Options(sheet_data), y \in Options(sheet_data), lib \in BOOLEAN :
        LET called == Truthy(x) /\ Truthy(y)
        IN  Branch("Generating Bar Chart...", Selection(x, None, y, None),
                   "generate_bar_chart", called,
                   IF called THEN generate_bar_chart(sheet_data, x, y, color_scale, lib)
                   ELSE NotCalled)

ScatterBranch ==
    /\ pc = "branch"
    /\ viz_type = "Scatter Plot"
    /\ \E x \in Options(sheet_data), y \in Options(sheet_data),
          color \in OptionalOptions(sheet_data), lib \in BOOLEAN :
        Branch("Generating Scatter Plot...", Selection(x, None, y, color),
               "generate_scatter_plot", TRUE,
               generate_scatter_plot(sheet_data, x, y, color, color_scale, lib))

LineBranch ==
    /\ pc = "branch"
    /\ viz_type = "Line Chart"
    /\ \E x \in Options(sheet_data), y \in Options(sheet_data),
          color \in OptionalOptions(sheet_data), lib \in BOOLEAN :
        Branch("Generating Line Chart...", Selection(x, None, y, color),
               "generate_line_chart", TRUE,
               IF revision = "app"
               THEN generate_line_chart(sheet_data, x, y, color, color_scale, lib)
               ELSE generate_line_chart_1(sheet_data, x, y, color, color_scale, lib))

HeatmapBranch ==
    /\ pc = "branch"
    /\ viz_type = "Heatmap"
    /\ \E x \in Options(sheet_data), y \in Options(sheet_data),
          value \in Options(sheet_data), lib \in BOOLEAN :
        Branch("Generating Heatmap...", Selection(x, None, y, value),
               "generate_heatmap", TRUE,
               generate_heatmap(sheet_data, x, y, value, color_scale, lib))

\* The file name each branch passes to save_to_html.
FileName(kind) ==
    CASE kind = "Gantt Chart" -> HtmlName("gantt_chart")
      [] kind = "Bar Chart" -> HtmlName("bar_chart")
      [] kind = "Scatter Plot" -> HtmlName("scatter_plot")
      [] kind = "Line Chart" -> HtmlName("line_chart")
      [] kind = "Heatmap" -> HtmlName("heatmap")

\* st.plotly_chart(fig), inside `if fig:`.
Display ==
    /\ pc = "display"
    /\ page' = Append(page, StPlotlyChart(fig))
    /\ pc' = "save"
    /\ UNCHANGED <<revision, runs, uploaded_file, sheet_data, viz_type, color_scale, sel,
                   fig, files, dirs, calls, baseline>>

\* save_to_html(fig, "<kind>.html") in src/app.py,
\* save_to_html(fig, "<kind>.html", save_png=True) in src/iteration1/app.py.
Save ==
    /\ pc = "save"
    /\ \E io \in IoOutcomes :
        LET r == IF revision = "app"
                 THEN save_to_html(fig, FileName(viz_type), files, dirs, runs, io)
                 ELSE save_to_html_1(fig, FileName(viz_type), TRUE, "visualizations",
                                     files, dirs, runs, io)
        IN  /\ files' = r.files
            /\ dirs' = r.dirs
            /\ page' = page \o r.out
    /\ pc' = "idle"
    /\ UNCHANGED <<revision, runs, uploaded_file, sheet_data, viz_type, color_scale, sel,
                   fig, calls, baseline>>

Next ==
    \/ Rerun
    \/ Load
    \/ Suggest
    \/ ChooseViz
    \/ GanttBranch
    \/ BarBranch
    \/ ScatterBranch
    \/ LineBranch
    \/ HeatmapBranch
    \/ Display
    \/ Save

Spec == Init /\ [][Next]_vars

\* ------------------------------------------- the generators, called directly

AnyColumn == Range(Columns) \cup {AbsentColumn}
AnyScale == Range(color_scales) \cup {UnknownScale}

\* The arguments each generator takes.
Requests(kind) ==
    CASE kind = "Gantt Chart" ->
            {Selection(s, e, t, None) : s \in AnyColumn, e \in AnyColumn, t \in AnyColumn}
      [] kind = "Bar Chart" ->
            {Selection(x, None, y, None) : x \in AnyColumn, y \in AnyColumn}
      [] kind \in {"Scatter Plot", "Line Chart"} ->
            {Selection(x, None, y, c) : x \in AnyColumn, y \in AnyColumn,
                                        c \in AnyColumn \cup {None}}
      [] kind = "Heatmap" ->
            {Selection(x, None, y, v) : x \in AnyColumn, y \in AnyColumn, v \in AnyColumn}

InitCall(frames, scales) ==
    /\ revision \in Revisions
    /\ pc = "call"
    /\ runs = 0
    /\ uploaded_file = NoUpload
    /\ sheet_data \in frames
    /\ viz_type \in Range(VizTypes)
    /\ color_scale \in scales
    /\ sel \in Requests(viz_type)
    /\ fig = NoFig
    /\ page = <<>>
    /\ files = {}
    /\ dirs = {Dir(".", 0)}
    /\ calls = <<>>
    /\ baseline = NoBaseline

Generate(kind, df, s, scale, lib) ==
    CASE kind = "Gantt Chart" -> generate_gantt_chart(df, s.x, s.x_end, s.y, scale, lib)
      [] kind = "Bar Chart" -> generate_bar_chart(df, s.x, s.y, scale, lib)
      [] kind = "Scatter Plot" -> generate_scatter_plot(df, s.x, s.y, s.c, scale, lib)
      [] kind = "Line Chart" ->
            IF revision = "app" THEN generate_line_chart(df, s.x, s.y, s.c, scale, lib)
            ELSE generate_line_chart_1(df, s.x, s.y, s.c, scale, lib)
      [] kind = "Heatmap" -> generate_heatmap(df, s.x, s.y, s.c, scale, lib)

\* One call of the generator of viz_type on (sheet_data, sel, color_scale).
CallGenerator ==
    /\ pc = "call"
    /\ \E lib \in BOOLEAN :
        LET r == Generate(viz_type, sheet_data, sel, color_scale, lib)
        IN  /\ fig' = r.fig
            /\ page' = r.out
            /\ baseline' = IF baseline = NoBaseline
                           THEN [df |-> sheet_data, fig |-> r.fig] ELSE baseline
    /\ calls' = <<viz_type>>
    /\ pc' = "returned"
    /\ UNCHANGED <<revision, runs, uploaded_file, sheet_data, viz_type, color_scale, sel,
                   files, dirs>>

InitGen == InitCall({HeaderOnly, Sales}, AnyScale)

NextGen == CallGenerator

SpecGen == InitGen /\ [][NextGen]_vars

\* ------------------------------------- the heatmap's table, on every frame

Swap(rows, i) ==
    [k \in 1..Len(rows) |-> IF k = i THEN rows[i + 1] ELSE IF k = i + 1 THEN rows[i] ELSE rows[k]]

\* The same rows in another order, and the generator called again.
Shuffle ==
    /\ pc = "returned"
    /\ \E i \in 1..(Len(sheet_data.rows) - 1) :
        sheet_data' = [sheet_data EXCEPT !.rows = Swap(sheet_data.rows, i)]
    /\ pc' = "call"
    /\ UNCHANGED <<revision, runs, uploaded_file, viz_type, color_scale, sel, fig, page,
                   files, dirs, calls, baseline>>

InitPivot ==
    /\ InitCall(BoundedFrames, {color_scales[1]})
    /\ revision = "app"
    /\ viz_type = "Heatmap"
    /\ AbsentColumn \notin {sel.x, sel.y, sel.c}

NextPivot ==
    \/ CallGenerator
    \/ Shuffle

SpecPivot == InitPivot /\ [][NextPivot]_vars


\* ================================================================== claims

Where(p, el) == {i \in 1..Len(p) : p[i].el = el}

\* What a run has reported as failed: the errors on the page, and the
\* suggestion text that is an error string.
Failures(p) == {i \in 1..Len(p) : p[i].el = "error" \/ p[i].exc # NoExc}

\* The folder save_to_html writes to.
SaveFolder == IF revision = "app" THEN "." ELSE "visualizations"

WrittenThisRun == {f \in files : runs > 0 /\ f.stamp = runs}

RefsAbsent == AbsentColumn \in {sel.x, sel.x_end, sel.y, sel.c}

RECURSIVE SumOver(_, _, _)
SumOver(rows, col, I) ==
    IF I = {} THEN 0
    ELSE LET i == CHOOSE k \in I : TRUE
         IN rows[i][col] + SumOver(rows, col, I \ {i})

\* ---- C1 (SpecPivot)
\* C1: the table of a heatmap has one row per distinct value of the y column
\* and one column per distinct value of the x column, and each cell is the sum
\* of the value column over the rows with that (x, y) pair: 0 when there is
\* no such row.
C1_PivotCellsAreSums ==
    (pc = "returned" /\ fig.kind = "Heatmap") =>
        LET rows == sheet_data.rows
            ys == {rows[i][sel.y] : i \in 1..Len(rows)}
            xs == {rows[i][sel.x] : i \in 1..Len(rows)}
            t == fig.z
        IN  /\ Len(t.index) = Cardinality(ys)
            /\ Range(t.index) = ys
            /\ Len(t.columns) = Cardinality(xs)
            /\ Range(t.columns) = xs
            /\ DOMAIN t.cell = ys \X xs
            /\ \A y \in ys, x \in xs :
                t.cell[<<y, x>>] =
                    SumOver(rows, sel.c,
                            {i \in 1..Len(rows) : rows[i][sel.y] = y /\ rows[i][sel.x] = x})

\* Two rows for the same (region, month) pair with sales 10 and 15 give 25.
C1_Witness ==
    /\ pc = "returned"
    /\ fig.kind = "Heatmap"
    /\ sel = Selection("month", None, "region", "sales")
    /\ sheet_data.rows = <<Row(1, 1, 10), Row(1, 1, 15)>>
    /\ fig.z.cell[<<1, 1>>] = 25

C2_UnknownColumnIsNamed ==
    (pc = "returned" /\ RefsAbsent) =>
        /\ fig = NoFig
        /\ Len(page) = 1
        /\ page[1].el = "error"
        /\ page[1].exc.about = AbsentColumn

\* ---- C3 (Spec)
\* C3: with a table that has a header and no rows, no generator returns a
\* figure, nothing is displayed and nothing is saved.
C3_EmptyDatasetIsRejected ==
    (sheet_data.columns # <<>> /\ sheet_data.rows = <<>>) =>
        /\ fig = NoFig
        /\ Where(page, "plotly_chart") = {}
        /\ WrittenThisRun = {}

C5_SuggestionFailureGoesOn ==
    [][pc = "suggest" =>
        /\ pc' = "choose"
        /\ Len(page') = Len(page) + 1
        /\ SubSeq(page', 1, Len(page)) = page
        /\ page'[Len(page')].el = "write"
        /\ page'[Len(page')].text \in {"suggestions", "Error generating suggestions"}
        /\ (page'[Len(page')].exc # NoExc
               <=> page'[Len(page')].text = "Error generating suggestions")
        /\ UNCHANGED <<uploaded_file, sheet_data, files, dirs, fig>>]_vars

\* The suggestion call failed and the same run displayed and saved a chart.
C5_Witness ==
    /\ \E i \in Where(page, "write") : page[i].text = "Error generating suggestions"
    /\ Where(page, "plotly_chart") # {}
    /\ Where(page, "success") # {}
    /\ WrittenThisRun # {}

C7_NoColourColumnNoColour ==
    (fig.kind \in {"Bar Chart", "Scatter Plot", "Line Chart"} /\ sel.c = None) =>
        fig.color = None

\* C7, amended: that holds of scatter and line figures; a bar chart has no
\* colour selection and always has its y column in the colour role.
C7_ScatterAndLineOnly ==
    /\ (fig.kind \in {"Scatter Plot", "Line Chart"} /\ sel.c = None) => fig.color = None
    /\ fig.kind = "Bar Chart" => (sel.c = None /\ fig.color = sel.y)

C7_Witness ==
    /\ pc = "save"
    /\ fig.kind = "Scatter Plot"
    /\ sel.c = None
    /\ fig.color = None
    /\ sheet_data = Sales

\* ---- C9 (Spec)
\* The name with its last piece replaced.
WithSuffix(name, suffix) == Append(SubSeq(name, 1, Len(name) - 1), suffix)

\* C9: every file a run reports as saved exists, written by this run, in the
\* folder save_to_html writes to, and that folder exists; the names reported
\* are the HTML name and, after it, that name with .html replaced by .png.
C9_ReportedFilesExist ==
    \A i \in Where(page, "success") :
        /\ Exists(dirs, SaveFolder)
        /\ \E f \in files :
            /\ f.folder = SaveFolder
            /\ f.name = page[i].file
            /\ f.stamp = runs
            /\ f.kind = fig.kind
        /\ \/ page[i].file = FileName(viz_type)
           \/ /\ revision = "iteration1"
              /\ page[i].file = WithSuffix(FileName(viz_type), ".png")
              /\ \E j \in Where(page, "success") :
                    j < i /\ page[j].file = FileName(viz_type)

\* This run made the folder and reported both files.
C9_Witness ==
    /\ revision = "iteration1"
    /\ runs > 0
    /\ Dir("visualizations", runs) \in dirs
    /\ Cardinality(Where(page, "success")) = 2
    /\ File("visualizations", <<"heatmap", ".png">>, "Heatmap", runs) \in files

\* ---- C10 (Spec)
GeneratorOf(kind) ==
    CASE kind = "Gantt Chart" -> "generate_gantt_chart"
      [] kind = "Bar Chart" -> "generate_bar_chart"
      [] kind = "Scatter Plot" -> "generate_scatter_plot"
      [] kind = "Line Chart" -> "generate_line_chart"
      [] kind = "Heatmap" -> "generate_heatmap"

StemOf(kind) ==
    CASE kind = "Gantt Chart" -> "gantt_chart"
      [] kind = "Bar Chart" -> "bar_chart"
      [] kind = "Scatter Plot" -> "scatter_plot"
      [] kind = "Line Chart" -> "line_chart"
      [] kind = "Heatmap" -> "heatmap"

\* C10: a run calls at most one generator, the one of the selected kind; a
\* chart is displayed only if that call returned a figure, and a file is
\* written only after the display, under the name of the selected kind; when
\* the call returned None or was skipped, nothing is displayed or written.
C10_OneGeneratorDisplayThenSave ==
    /\ Len(calls) <= 1
    /\ calls # <<>> => calls[1] = GeneratorOf(viz_type)
    /\ fig # NoFig => (calls # <<>> /\ fig.kind = viz_type)
    /\ pc \in {"display", "save"} => fig # NoFig
    /\ \A i \in Where(page, "plotly_chart") : fig # NoFig /\ page[i].fig = fig
    /\ \A i \in Where(page, "success") : \E j \in Where(page, "plotly_chart") : j < i
    /\ \A f \in WrittenThisRun :
        /\ Where(page, "plotly_chart") # {}
        /\ f.kind = viz_type
        /\ f.name \in {<<StemOf(viz_type), ".html">>, <<StemOf(viz_type), ".png">>}
    /\ fig = NoFig =>
        /\ Where(page, "plotly_chart") = {}
        /\ Where(page, "success") = {}
        /\ WrittenThisRun = {}

\* The generator of the selected kind ran and returned None.
C10_Witness ==
    /\ pc = "idle"
    /\ viz_type = "Heatmap"
    /\ calls = <<"generate_heatmap">>
    /\ fig = NoFig
    /\ sheet_data = Sales
    /\ Where(page, "error") # {}
    /\ WrittenThisRun = {}

=============================================================================
